---- MODULE Spec2Model ----
(***************************************************************************)
(* Rocket telemetry dashboard: the zustand telemetry store                 *)
(* (src/src/store/telemetryStore.ts), the WebSocket connection hook and    *)
(* the two variants of the flight simulator hook                           *)
(* (src/src/hooks/useTelemetryWebSocket.ts), and the control panel that    *)
(* uses them (src/src/components/ControlPanel.tsx).                        *)
(*                                                                         *)
(* Numbers are fixed-point integers: hundredths in packets and in the      *)
(* store (9.81 is 981), thousandths inside the simulator.  The packets fed *)
(* to the store by hand are chosen so that every square root taken by      *)
(* addTelemetryPacket is exact; elsewhere roots and quotients are rounded  *)
(* toward zero.  IEEE rounding is outside the model.                       *)
(***************************************************************************)
EXTENDS Integers, Sequences, FiniteSets, TLC

\* ------------------------------------------------------------------------
\* Bounds of the model
\* ------------------------------------------------------------------------

\* capacity of history; 3000 in the source, scaled down so that eviction
\* is explored exhaustively
HISTORY_BUFFER_SIZE == 2

\* capacity of logs; the literal 1000 in addLog, scaled down likewise
LOG_BUFFER_SIZE == 2

\* packets inserted since the last clearHistory before the model stops
\* feeding packets: always enough to overflow the history buffer
MaxInserted == HISTORY_BUFFER_SIZE + 1

\* ------------------------------------------------------------------------
\* Values
\* ------------------------------------------------------------------------

\* standard gravity 9.81 m/s^2 in hundredths
G_CENTI == 981

FlightPhases ==
    <<"pre-flight", "powered-ascent", "burnout", "apogee",
      "drogue-deploy", "main-deploy", "landed">>

\* currentPacket: null
NullPacket ==
    [timestamp |-> 0, accel |-> <<0, 0, 0>>, velocity |-> <<0, 0, 0>>,
     altitude |-> 0, phase |-> "null"]

\* A TelemetryPacket, reduced to the fields the store and the hooks read:
\* imu.accel, velocity, baro.altitude, phase and timestamp.  gyro, mag, gps,
\* baro.pressure, battery and rssi are carried along untouched by all code
\* modelled here.
Packet(ts, accel, vel, alt, phase) ==
    [timestamp |-> ts, accel |-> accel, velocity |-> vel,
     altitude |-> alt, phase |-> phase]

\* 1 g straight up at rest on the pad
PacketPad == Packet(1, <<0, 0, 981>>, <<0, 0, 0>>, 0, "pre-flight")
\* 2 g, 50 m/s, 1200 m
PacketBoost == Packet(2, <<0, 0, 1962>>, <<3000, 4000, 0>>, 120000, "powered-ascent")
\* descending at 13 m/s, 5 g chute shock, barometer noise below ground level
PacketDescent == Packet(3, <<-2943, 0, 3924>>, <<0, -500, -1200>>, -30, "main-deploy")

Packets == {PacketPad, PacketBoost, PacketDescent}

Max(a, b) == IF a >= b THEN a ELSE b
Min(a, b) == IF a <= b THEN a ELSE b

\* Math.sqrt on the fixed-point grid: the integer r with r*r <= n < (r+1)^2
RECURSIVE SqrtSearch(_, _, _)
SqrtSearch(n, lo, hi) ==
    IF lo >= hi THEN lo
    ELSE LET mid == (lo + hi + 1) \div 2
         IN IF mid * mid <= n THEN SqrtSearch(n, mid, hi)
                              ELSE SqrtSearch(n, lo, mid - 1)

Sqrt(n) == SqrtSearch(n, 0, Min(n, 46340))

Abs(a) == IF a >= 0 THEN a ELSE -a

MagnitudeNoRoot(v) == Abs(v[1]) + Abs(v[2]) + Abs(v[3])

\* Math.sqrt(v.x ** 2 + v.y ** 2 + v.z ** 2)
Magnitude(v) == Sqrt(v[1] * v[1] + v[2] * v[2] + v[3] * v[3])

\* ------------------------------------------------------------------------
\* State
\* ------------------------------------------------------------------------

VARIABLES
    store,            \* the zustand state object
    pending,          \* the addTelemetryPacket call in flight between its two set()s
    inserted,         \* history variable: packets passed to addTelemetryPacket
                      \* since the last clearHistory
    mounted,          \* "no", "yes", "gone": lifetime of the component using the hook
    enabled,          \* the enabled prop of the hook's latest render
    wsRef,            \* wsRef.current: 0 for null, else an index of sockets
    retryTimeoutRef,  \* retryTimeoutRef.current: 0 for null, else an index of timers
    retryCount,       \* retryCount.current
    sockets,          \* the WebSockets still reachable, in order of construction
    timers,           \* the retry timeouts still reachable, in order of creation
    run,              \* history variable: the retries of an unassisted run
    sim,              \* the refs of the simulator hook, its timers and the clock
    app               \* the control panel using both hooks

storeVars == <<store, pending, inserted>>
hookVars ==
    <<mounted, enabled, wsRef, retryTimeoutRef, retryCount, sockets, timers, run,
      sim, app>>
vars ==
    <<store, pending, inserted, mounted, enabled, wsRef, retryTimeoutRef,
      retryCount, sockets, timers, run, sim, app>>

ZeroMaxima ==
    [maxAltitude |-> 0, maxVelocity |-> 0, maxAcceleration |-> 0, maxGForce |-> 0]

InitialStore ==
    [isConnected    |-> FALSE,
     isSimulating   |-> FALSE,
     selectedDevice |-> "",
     currentPacket  |-> NullPacket,
     history        |-> <<>>,
     sessionMaxima  |-> ZeroMaxima,
     logs           |-> <<>>,
     followLatest   |-> TRUE]

\* via: the socket whose onmessage made the call, 0 for a direct call
NoCall == [active |-> FALSE, packet |-> NullPacket,
           history |-> <<>>, sessionMaxima |-> ZeroMaxima, via |-> 0]

\* ------------------------------------------------------------------------
\* Store actions as functions of the state object
\* ------------------------------------------------------------------------

Log(type, message, arg) == [type |-> type, message |-> message, arg |-> arg]

addLogKeepOldest(st, log) ==
    LET newLogs == Append(st.logs, log)
    IN [st EXCEPT !.logs = IF Len(newLogs) > LOG_BUFFER_SIZE
                           THEN SubSeq(newLogs, 1, LOG_BUFFER_SIZE)
                           ELSE newLogs]

addLog(st, log) ==
    LET newLogs == Append(st.logs, log)
    IN [st EXCEPT !.logs = IF Len(newLogs) > LOG_BUFFER_SIZE
                           THEN Tail(newLogs)
                           ELSE newLogs]

setConnected(st, connected) ==
    addLog([st EXCEPT !.isConnected = connected],
           Log(IF connected THEN "success" ELSE "warning",
               IF connected THEN "Connected to telemetry source"
                            ELSE "Disconnected from telemetry source", 0))

\* setSimulating that sets the flag and logs nothing
setSimulatingSilent(st, simulating) == [st EXCEPT !.isSimulating = simulating]

setSimulating(st, simulating) ==
    addLog([st EXCEPT !.isSimulating = simulating],
           Log("info",
               IF simulating THEN "Started simulation mode"
                             ELSE "Stopped simulation mode", 0))

setSelectedDevice(st, device) == [st EXCEPT !.selectedDevice = device]

setFollowLatest(st, follow) == [st EXCEPT !.followLatest = follow]

\* first set() of addTelemetryPacket: set({ currentPacket: packet })
addTelemetryPacketSetCurrent(st, packet) == [st EXCEPT !.currentPacket = packet]

\* const state = get(), taken before the first set()
addTelemetryPacketCall(st, packet, via) ==
    [active |-> TRUE, packet |-> packet,
     history |-> st.history, sessionMaxima |-> st.sessionMaxima, via |-> via]

\* the n most recent elements of seq
LastN(seq, n) == SubSeq(seq, Len(seq) - Min(n, Len(seq)) + 1, Len(seq))

newHistoryNoEvict(call) == Append(call.history, call.packet)

newHistoryEvictNewest(call) ==
    LET h == Append(call.history, call.packet)
    IN IF Len(h) > HISTORY_BUFFER_SIZE THEN SubSeq(h, 1, HISTORY_BUFFER_SIZE) ELSE h

\* the packet put in front of the history instead of at its end
newHistoryPrepend(call) ==
    LET h == <<call.packet>> \o call.history
    IN IF Len(h) > HISTORY_BUFFER_SIZE THEN SubSeq(h, 1, HISTORY_BUFFER_SIZE) ELSE h

\* newHistory = [...state.history, packet]; shift() when over capacity
newHistory(call) ==
    LET h == Append(call.history, call.packet)
    IN IF Len(h) > HISTORY_BUFFER_SIZE THEN Tail(h) ELSE h

newMaximaLatest(call) ==
    LET accelMagnitude == Magnitude(call.packet.accel)
        velocityMagnitude == Magnitude(call.packet.velocity)
    IN [maxAltitude     |-> call.packet.altitude,
        maxVelocity     |-> velocityMagnitude,
        maxAcceleration |-> accelMagnitude,
        maxGForce       |-> (accelMagnitude * 100) \div G_CENTI]

\* newMaxima: element-wise Math.max of the previous maxima and the packet's
\* altitude, |velocity|, |accel| and |accel| / 9.81
newMaxima(call) ==
    LET accelMagnitude == Magnitude(call.packet.accel)
        velocityMagnitude == Magnitude(call.packet.velocity)
        gForce == (accelMagnitude * 100) \div G_CENTI
    IN [maxAltitude     |-> Max(call.sessionMaxima.maxAltitude, call.packet.altitude),
        maxVelocity     |-> Max(call.sessionMaxima.maxVelocity, velocityMagnitude),
        maxAcceleration |-> Max(call.sessionMaxima.maxAcceleration, accelMagnitude),
        maxGForce       |-> Max(call.sessionMaxima.maxGForce, gForce)]

\* second set() of addTelemetryPacket: set({ history, sessionMaxima })
addTelemetryPacketSetHistory(st, call) ==
    [st EXCEPT !.history = newHistory(call), !.sessionMaxima = newMaxima(call)]

clearHistoryAndPacket(st) ==
    [st EXCEPT !.history = <<>>, !.sessionMaxima = ZeroMaxima,
               !.currentPacket = NullPacket]

clearHistory(st) ==
    [st EXCEPT !.history = <<>>, !.sessionMaxima = ZeroMaxima]


\* ------------------------------------------------------------------------
\* The connection hook: useTelemetryWebSocket({ url, enabled })
\* ------------------------------------------------------------------------

\* at most this many automatic retries after the counter was last reset
MAX_RETRIES == 5
\* first retry delay, ms
BASE_DELAY == 1000
\* ceiling of the retry delay, ms
MAX_DELAY == 30000

\* WebSockets reachable at once before the model stops connecting
MaxSockets == 2

\* retry timeouts reachable at once
MaxTimers == 1

RECURSIVE Pow2(_)
Pow2(n) == IF n <= 0 THEN 1 ELSE 2 * Pow2(n - 1)

retryDelayLinear(k) == Min(BASE_DELAY * (k + 1), MAX_DELAY)

\* Math.min(1000 * Math.pow(2, retryCount.current), 30000)
retryDelay(k) == Min(BASE_DELAY * Pow2(k), MAX_DELAY)

\* The leaves of TelemetryPacketSchema that must be numbers
NumberFields ==
    {"timestamp",
     "imu.accel.x", "imu.accel.y", "imu.accel.z",
     "imu.gyro.x", "imu.gyro.y", "imu.gyro.z",
     "imu.mag.x", "imu.mag.y", "imu.mag.z",
     "gps.lat", "gps.lon", "gps.alt", "gps.heading",
     "baro.pressure", "baro.altitude",
     "velocity.x", "velocity.y", "velocity.z",
     "battery", "rssi"}

PhaseEnum == {FlightPhases[i] : i \in 1..Len(FlightPhases)}

\* A text frame: whether it is JSON at all, which number leaves the parsed
\* object has, which of them hold a number, its phase ("" when absent), and
\* the packet its values make
Frame(json, present, numbers, phase, packet) ==
    [json |-> json, present |-> present, numbers |-> numbers,
     phase |-> phase, packet |-> packet]

FrameBoost == Frame(TRUE, NumberFields, NumberFields, "powered-ascent", PacketBoost)
FramePad == Frame(TRUE, NumberFields, NumberFields, "pre-flight", PacketPad)
FrameNotJson == Frame(FALSE, {}, {}, "", NullPacket)
FrameNoRssi ==
    Frame(TRUE, NumberFields \ {"rssi"}, NumberFields \ {"rssi"}, "powered-ascent", PacketBoost)
FrameStringBattery ==
    Frame(TRUE, NumberFields, NumberFields \ {"battery"}, "powered-ascent", PacketBoost)
FrameBadPhase == Frame(TRUE, NumberFields, NumberFields, "orbit", PacketBoost)
FrameNoPhase == Frame(TRUE, NumberFields, NumberFields, "", PacketBoost)
FrameEmptyObject == Frame(TRUE, {}, {}, "", NullPacket)

ValidFrames == {FrameBoost, FramePad}
MalformedFrames ==
    {FrameNotJson, FrameNoRssi, FrameStringBattery, FrameBadPhase, FrameNoPhase,
     FrameEmptyObject}
Frames == ValidFrames \cup MalformedFrames

\* JSON.parse(event.data) followed by TelemetryPacketSchema.parse(data):
\* TRUE when neither throws
parses(frame) ==
    /\ frame.json
    /\ \A f \in NumberFields : f \in frame.present /\ f \in frame.numbers
    /\ frame.phase \in PhaseEnum

\* the refs of the hook and the store, as one value the handlers transform
World ==
    [store |-> store, pending |-> pending, inserted |-> inserted,
     wsRef |-> wsRef, retryTimeoutRef |-> retryTimeoutRef,
     retryCount |-> retryCount, sockets |-> sockets, timers |-> timers,
     run |-> run, sim |-> sim, app |-> app]

RECURSIVE Keep(_, _, _)
Keep(seq, keep, i) ==
    IF i > Len(seq) THEN <<>>
    ELSE (IF i \in keep THEN <<seq[i]>> ELSE <<>>) \o Keep(seq, keep, i + 1)

Renumber(ref, keep) == IF ref = 0 THEN 0 ELSE Cardinality({j \in keep : j <= ref})

\* Garbage collection: a WebSocket that is CLOSED with its close event
\* dispatched and that wsRef does not hold can never act again, nor can a
\* timeout that has fired or was cleared and that retryTimeoutRef does not hold
Collect(w) ==
    LET keepS == {i \in 1..Len(w.sockets) :
                    \/ w.sockets[i].readyState # "CLOSED"
                    \/ w.sockets[i].closeDue
                    \/ i = w.wsRef}
        keepT == {t \in 1..Len(w.timers) :
                    w.timers[t].state = "pending" \/ t = w.retryTimeoutRef}
    IN [w EXCEPT !.sockets = Keep(w.sockets, keepS, 1),
                 !.wsRef = Renumber(w.wsRef, keepS),
                 !.pending.via = Renumber(@, keepS),
                 !.timers = Keep(w.timers, keepT, 1),
                 !.retryTimeoutRef = Renumber(w.retryTimeoutRef, keepT)]

\* new WebSocket(url) with the handlers of a connect closure whose enabled
\* is en.  rejected is a history field: onmessage has dropped a frame
NewSocket(en) ==
    [readyState |-> "CONNECTING", closeDue |-> FALSE, en |-> en, rejected |-> FALSE]

\* The history variable run follows a run of the hook in which the owner
\* has created one transport and no transport has opened: "none" before
\* the first transport, "retrying" with the number of transports created by
\* retry timeouts so far, "void" once the owner creates a second transport
\* or a transport opens
NoRun == [phase |-> "none", retries |-> 0]
VoidRun == [phase |-> "void", retries |-> 0]

Counted(w, by) ==
    IF by = "timer"
    THEN IF w.run.phase = "retrying"
         THEN [w EXCEPT !.run.retries = @ + 1]
         ELSE w
    ELSE IF w.run.phase = "none"
         THEN [w EXCEPT !.run = [phase |-> "retrying", retries |-> 0]]
         ELSE [w EXCEPT !.run = VoidRun]

\* connect() that also returns early while a transport is still connecting
connectUnlessLive(w, en, by) ==
    IF ~en \/ (w.wsRef # 0 /\ w.sockets[w.wsRef].readyState \in {"CONNECTING", "OPEN"})
    THEN w
    ELSE Counted([w EXCEPT !.sockets = Append(@, NewSocket(en)),
                           !.wsRef = Len(w.sockets) + 1], by)

connect(w, en, by) ==
    IF ~en \/ (w.wsRef # 0 /\ w.sockets[w.wsRef].readyState = "OPEN")
    THEN w
    ELSE Counted([w EXCEPT !.sockets = Append(@, NewSocket(en)),
                           !.wsRef = Len(w.sockets) + 1], by)

\* WebSocket.close()
closed(readyState) ==
    IF readyState \in {"CONNECTING", "OPEN"} THEN "CLOSING" ELSE readyState

disconnect(w) ==
    LET w1 == IF w.retryTimeoutRef # 0
              THEN [w EXCEPT !.timers[w.retryTimeoutRef].state =
                                 IF @ = "pending" THEN "cleared" ELSE @,
                             !.retryTimeoutRef = 0]
              ELSE w
        w2 == IF w1.wsRef # 0
              THEN [w1 EXCEPT !.sockets[w1.wsRef].readyState = closed(@),
                              !.wsRef = 0]
              ELSE w1
    IN [w2 EXCEPT !.store = setConnected(@, FALSE)]

onopen(w, i) ==
    [w EXCEPT !.store = addLog(setConnected(@, TRUE),
                               Log("success", "Connected to WebSocket", 0)),
              !.retryCount = 0,
              !.run = VoidRun]

\* addTelemetryPacket(packet) up to and including its first set()
addTelemetryPacketBegin(w, packet, via) ==
    [w EXCEPT !.pending = addTelemetryPacketCall(w.store, packet, via),
              !.store = addTelemetryPacketSetCurrent(@, packet),
              !.inserted = Append(@, packet)]

onmessageCloses(w, i, frame) ==
    IF parses(frame)
    THEN addTelemetryPacketBegin(w, frame.packet, i)
    ELSE [w EXCEPT !.store = addLog(@, Log("error", "Invalid telemetry packet", 0)),
                   !.sockets[i].rejected = TRUE,
                   !.sockets[i].readyState = closed(@)]

onmessage(w, i, frame) ==
    IF parses(frame)
    THEN addTelemetryPacketBegin(w, frame.packet, i)
    ELSE [w EXCEPT !.store = addLog(@, Log("error", "Invalid telemetry packet", 0)),
                   !.sockets[i].rejected = TRUE]

oncloseNoCap(w, i) ==
    LET delay == retryDelay(w.retryCount)
    IN [w EXCEPT !.store = addLog(setConnected(@, FALSE),
                                  Log("warning", "Connection lost. Retrying", delay)),
                 !.timers = Append(@, [state |-> "pending", delay |-> delay,
                                       en |-> w.sockets[i].en]),
                 !.retryTimeoutRef = Len(w.timers) + 1]

onclose(w, i) ==
    IF w.sockets[i].en /\ w.retryCount < MAX_RETRIES
    THEN LET delay == retryDelay(w.retryCount)
         IN [w EXCEPT !.store = addLog(setConnected(@, FALSE),
                                       Log("warning", "Connection lost. Retrying", delay)),
                      !.timers = Append(@, [state |-> "pending", delay |-> delay,
                                            en |-> w.sockets[i].en]),
                      !.retryTimeoutRef = Len(w.timers) + 1]
    ELSE [w EXCEPT !.store = setConnected(@, FALSE)]

\* an error handler that also marks the connection as lost
onerrorDisconnects(w, i) ==
    [w EXCEPT !.store = addLog(setConnected(@, FALSE),
                               Log("error", "WebSocket error", 0))]

onerror(w, i) ==
    [w EXCEPT !.store = addLog(@, Log("error", "WebSocket error", 0))]

\* the callback handed to setTimeout in onclose
retryTimeout(w, t) ==
    connect([w EXCEPT !.retryCount = @ + 1], w.timers[t].en, "timer")

\* the body of the hook's effect for a render with enabled = en
effect(w, en) ==
    IF en /\ ~w.store.isSimulating THEN connect(w, en, "effect") ELSE disconnect(w)

\* ------------------------------------------------------------------------
\* The flight simulator hook (useTelemetrySimulation).  The source holds two
\* variants of it: the first decides the phase before integrating, the
\* second ("canonical") integrates first.  Lengths are in millimetres, times
\* in milliseconds, speeds in mm/s, accelerations in mm/s^2; every division
\* truncates toward zero.
\* ------------------------------------------------------------------------

\* setInterval(stepSimulation, 50)
TICK_MS == 50
\* Math.min(0.05, ...): the largest integration step
DT_MAX == 50
\* canonical variant
PRE_FLIGHT_DURATION == 2000
BOOST_DURATION == 1600
NET_ACCEL == 132000
DROGUE_DEPLOY_ALT == 600000
MAIN_DEPLOY_ALT == 150000
\* 0.00006, in units of 1e-5 per metre
DRAG_K == 6
WIND_ACCEL_X == 300
WIND_ACCEL_Y == 0
G == 9810
\* s.z <= 5 && Math.abs(s.vz) < 2
LANDING_ALT == 5000
LANDING_SPEED == 2000
\* grace delay of the canonical variant
GRACE_MS == 2000
\* first variant
BOOST_DURATION_FIRST == 6500
PEAK_THRUST_ACCEL == 85000
\* 0.00018, in units of 1e-5 per metre
COAST_DRAG_K == 18
mainDeployAlt == 150000
\* 1.5 * sin(5 deg) * cos(35 deg) + 0.2 and 1.5 * sin(5 deg) * sin(35 deg) - 0.05
ARC_ACCEL_X == 307
ARC_ACCEL_Y == 25
\* grace delay of the first variant
GRACE_MS_FIRST == 100
\* pi in units of 1e-4
PI_E4 == 31416

Variants == {"first", "canonical"}

DivT(a, b) == IF a >= 0 THEN a \div b ELSE -((-a) \div b)

\* Math.sign
Sign(a) == IF a > 0 THEN 1 ELSE IF a < 0 THEN -1 ELSE 0

\* k * 1e-5 * v ** 2 for a speed v, as an acceleration
Quad(k, v) ==
    LET vc == Abs(v) \div 10
    IN (((vc * vc) \div 100) * k) \div 10000

\* Math.cos on [0, pi], argument and value in units of 1e-4: Taylor series
\* about 0 after reflection into [0, pi/2]
RECURSIVE CosSeries(_, _, _, _)
CosSeries(x2, term, n, sum) ==
    IF n > 10 \/ term = 0 THEN sum
    ELSE LET next == -DivT(DivT(term * x2, 10000), (n - 1) * n)
         IN CosSeries(x2, next, n + 2, sum + next)

Cos(x) ==
    LET y == IF 2 * x > PI_E4 THEN PI_E4 - x ELSE x
        c == CosSeries(DivT(y * y, 10000), 10000, 2, 10000)
    IN IF 2 * x > PI_E4 THEN -c ELSE c

\* stateRef.current = { x: 0, y: 0, z: 0, vx: 0, vy: 0, vz: 0 }
RestState == [x |-> 0, y |-> 0, z |-> 0, vx |-> 0, vy |-> 0, vz |-> 0]

\* the integration without the ground clamp
IntegrateNoClamp(s, a, dt) ==
    LET vx == s.vx + DivT(a[1] * dt, 1000)
        vy == s.vy + DivT(a[2] * dt, 1000)
        vz == s.vz + DivT(a[3] * dt, 1000)
    IN [x |-> s.x + DivT(vx * dt, 1000),
        y |-> s.y + DivT(vy * dt, 1000),
        z |-> s.z + DivT(vz * dt, 1000),
        vx |-> vx, vy |-> vy, vz |-> vz]

\* s.v* += a* * dt; s.* += s.v* * dt; then the ground clamp
Integrate(s, a, dt) ==
    LET vx == s.vx + DivT(a[1] * dt, 1000)
        vy == s.vy + DivT(a[2] * dt, 1000)
        vz == s.vz + DivT(a[3] * dt, 1000)
        z == s.z + DivT(vz * dt, 1000)
    IN [x |-> s.x + DivT(vx * dt, 1000),
        y |-> s.y + DivT(vy * dt, 1000),
        z |-> IF z < 0 THEN 0 ELSE z,
        vx |-> vx, vy |-> vy,
        vz |-> IF z < 0 THEN 0 ELSE vz]

\* canonical variant: accelerations from the phase of the previous tick
Accel(phase, s) ==
    CASE phase = "powered-ascent" ->
           <<DivT(WIND_ACCEL_X, 10), DivT(WIND_ACCEL_Y, 10), NET_ACCEL - G>>
      [] phase \in {"burnout", "apogee"} ->
           <<WIND_ACCEL_X - Sign(s.vx) * (Quad(DRAG_K, s.vx) \div 2),
             WIND_ACCEL_Y - Sign(s.vy) * (Quad(DRAG_K, s.vy) \div 2),
             -G - Sign(s.vz) * Quad(DRAG_K, s.vz)>>
      [] phase = "drogue-deploy" ->
           <<WIND_ACCEL_X - Sign(s.vx) * (Quad(DRAG_K, s.vx) \div 2),
             WIND_ACCEL_Y - Sign(s.vy) * (Quad(DRAG_K, s.vy) \div 2),
             -G + DivT((-40000 - s.vz) * 5, 10)>>
      [] phase = "main-deploy" ->
           <<WIND_ACCEL_X - Sign(s.vx) * (Quad(DRAG_K, s.vx) \div 2),
             WIND_ACCEL_Y - Sign(s.vy) * (Quad(DRAG_K, s.vy) \div 2),
             -G + DivT((-7000 - s.vz) * 9, 10)>>
      [] phase = "landed" -> <<0, 0, 0>>
      [] OTHER -> <<WIND_ACCEL_X, WIND_ACCEL_Y, -G>>

\* the canonical phase guards with the latch assignment forgotten
NewPhaseNoLatch(t, s, apogeeReached) ==
    IF t < PRE_FLIGHT_DURATION THEN [phase |-> "pre-flight", apogee |-> apogeeReached]
    ELSE IF t < PRE_FLIGHT_DURATION + BOOST_DURATION
    THEN [phase |-> "powered-ascent", apogee |-> apogeeReached]
    ELSE IF s.z <= LANDING_ALT /\ Abs(s.vz) < LANDING_SPEED
    THEN [phase |-> "landed", apogee |-> apogeeReached]
    ELSE IF ~apogeeReached /\ s.vz <= 0
    THEN [phase |-> "apogee", apogee |-> apogeeReached]
    ELSE IF apogeeReached /\ s.vz < 0
    THEN [phase |-> IF s.z > DROGUE_DEPLOY_ALT THEN "burnout"
                    ELSE IF s.z > MAIN_DEPLOY_ALT THEN "drogue-deploy"
                    ELSE "main-deploy",
          apogee |-> apogeeReached]
    ELSE [phase |-> "burnout", apogee |-> apogeeReached]

\* canonical variant: the phase from the new t and the new state, and the
\* apogee latch
NewPhase(t, s, apogeeReached) ==
    IF t < PRE_FLIGHT_DURATION THEN [phase |-> "pre-flight", apogee |-> apogeeReached]
    ELSE IF t < PRE_FLIGHT_DURATION + BOOST_DURATION
    THEN [phase |-> "powered-ascent", apogee |-> apogeeReached]
    ELSE IF s.z <= LANDING_ALT /\ Abs(s.vz) < LANDING_SPEED
    THEN [phase |-> "landed", apogee |-> apogeeReached]
    ELSE IF ~apogeeReached /\ s.vz <= 0
    THEN [phase |-> "apogee", apogee |-> TRUE]
    ELSE IF apogeeReached /\ s.vz < 0
    THEN [phase |-> IF s.z > DROGUE_DEPLOY_ALT THEN "burnout"
                    ELSE IF s.z > MAIN_DEPLOY_ALT THEN "drogue-deploy"
                    ELSE "main-deploy",
          apogee |-> apogeeReached]
    ELSE [phase |-> "burnout", apogee |-> apogeeReached]

\* first variant: the phase from t and the state before integration
PhaseFirst(t, s, phase, apogeeReached) ==
    LET p1 == IF t < 2000 THEN "pre-flight"
              ELSE IF t < 2000 + BOOST_DURATION_FIRST THEN "powered-ascent"
              ELSE IF ~apogeeReached THEN "burnout"
              ELSE IF phase = "burnout" THEN "apogee"
              ELSE phase
        p2 == IF p1 = "apogee" /\ s.vz < -10000 THEN "drogue-deploy" ELSE p1
        p3 == IF p2 = "drogue-deploy" /\ s.z <= mainDeployAlt + 50000
              THEN "main-deploy" ELSE p2
    IN IF p3 = "main-deploy" /\ s.z <= LANDING_ALT /\ Abs(s.vz) < LANDING_SPEED
       THEN "landed" ELSE p3

\* first variant: accelerations from the phase just decided
AccelFirst(phase, s, t) ==
    LET thrust == (DivT(PEAK_THRUST_ACCEL, 1000) *
                     (5500 + DivT(45 * Cos(DivT((t - 2000) * PI_E4,
                                                BOOST_DURATION_FIRST)), 100)))
                    \div 10
        az == CASE phase = "powered-ascent" -> -G + thrust
                [] phase = "burnout"        -> -G - Quad(COAST_DRAG_K, s.vz)
                [] phase = "drogue-deploy"  -> -G + DivT((-35000 - s.vz) * 5, 10)
                [] phase = "main-deploy"    -> -G + DivT((-7000 - s.vz) * 9, 10)
                [] phase = "landed"         -> 0
                [] OTHER                    -> -G
    IN IF phase \in {"powered-ascent", "burnout"}
       THEN <<ARC_ACCEL_X, ARC_ACCEL_Y, az>>
       ELSE IF phase \in {"drogue-deploy", "main-deploy"}
       THEN <<DivT((5000 - s.vx) * 3, 10), DivT((-2000 - s.vy) * 3, 10), az>>
       ELSE <<0, 0, az>>

\* the packet built by a tick; every Math.random() draw is taken as 0.5, so
\* that the noise terms are zero
SimPacket(now, a, s, phase) ==
    Packet(now,
           <<DivT(a[1], 10), DivT(a[2], 10), DivT(a[3] + G, 10)>>,
           <<DivT(s.vx, 10), DivT(s.vy, 10), DivT(s.vz, 10)>>,
           DivT(s.z, 10), phase)

\* history of a simulator session: its number, the phases of the packets
\* it has emitted with repetitions dropped, the packets with phase landed
\* it has emitted, and whether it has emitted a packet after such a packet
NoSession == [id |-> 0, phases |-> <<>>, landedPackets |-> 0, afterLanded |-> FALSE]

\* The refs of useTelemetrySimulation.  intervalRef is 0 for null; due is
\* the time at which the interval is to call back next; grace holds the
\* landing timeouts that are pending, as [due, session]; now is the clock
InitialSim ==
    [intervalRef |-> 0, lastTickRef |-> 0, t0Ref |-> 0, stateRef |-> RestState,
     flightPhaseRef |-> "pre-flight", apogeeReachedRef |-> FALSE,
     landedRef |-> FALSE, due |-> 0, grace |-> <<>>, now |-> 0,
     session |-> NoSession]

\* the control panel: whether it is mounted, which variant of the simulator
\* hook it uses, and the enabled and isSimulating of its latest render
NoApp == [mounted |-> FALSE, variant |-> "none", enabled |-> FALSE, isSimulating |-> FALSE]

\* addTelemetryPacket(packet), both set()s
addTelemetryPacket(w, packet) ==
    LET call == addTelemetryPacketCall(w.store, packet, 0)
    IN [w EXCEPT !.store = addTelemetryPacketSetHistory(
                               addTelemetryPacketSetCurrent(@, packet), call),
                 !.inserted = LastN(Append(@, packet), MaxInserted)]

\* addTelemetryPacket(packet) called by a tick
Emitted(w, packet) ==
    LET h == w.sim.session
    IN [addTelemetryPacket(w, packet) EXCEPT
          !.sim.session =
             [h EXCEPT !.phases = IF Len(@) > 0 /\ @[Len(@)] = packet.phase
                                  THEN @ ELSE Append(@, packet.phase),
                       !.landedPackets = IF packet.phase = "landed" THEN @ + 1 ELSE @,
                       !.afterLanded = @ \/ h.landedPackets > 0]]

\* the tail of stepSimulation: the first landed packet is emitted and the
\* landing timeout set, later landed packets are dropped
Landing(w, packet, now, delay) ==
    IF packet.phase = "landed"
    THEN IF ~w.sim.landedRef
         THEN [Emitted(w, packet) EXCEPT
                 !.sim.landedRef = TRUE,
                 !.sim.grace = Append(@, [due |-> now + delay,
                                          session |-> w.sim.session.id])]
         ELSE w
    ELSE Emitted(w, packet)

\* stepSimulation, canonical variant, called at time now
stepSimulation(w, now) ==
    IF w.sim.t0Ref = 0
    THEN [w EXCEPT !.sim.t0Ref = now, !.sim.lastTickRef = now]
    ELSE LET dt == Min(DT_MAX, now - w.sim.lastTickRef)
             t == now - w.sim.t0Ref
             phase == w.sim.flightPhaseRef
             a == Accel(phase, w.sim.stateRef)
             s0 == IF phase = "landed"
                   THEN [w.sim.stateRef EXCEPT !.vx = 0, !.vy = 0, !.vz = 0, !.z = 0]
                   ELSE w.sim.stateRef
             s == Integrate(s0, a, dt)
             new == NewPhase(t, s, w.sim.apogeeReachedRef)
             w1 == [w EXCEPT !.sim.lastTickRef = now,
                             !.sim.stateRef = s,
                             !.sim.flightPhaseRef = new.phase,
                             !.sim.apogeeReachedRef = new.apogee]
         IN Landing(w1, SimPacket(now, a, s, new.phase), now, GRACE_MS)

\* stepSimulation, first variant, called at time now
stepSimulationFirst(w, now) ==
    IF w.sim.t0Ref = 0
    THEN [w EXCEPT !.sim.t0Ref = now, !.sim.lastTickRef = now]
    ELSE LET dt == Min(DT_MAX, now - w.sim.lastTickRef)
             t == now - w.sim.t0Ref
             phase == PhaseFirst(t, w.sim.stateRef, w.sim.flightPhaseRef,
                                 w.sim.apogeeReachedRef)
             a == AccelFirst(phase, w.sim.stateRef, t)
             s0 == IF phase = "landed"
                   THEN [w.sim.stateRef EXCEPT !.vz = 0, !.z = 0]
                   ELSE w.sim.stateRef
             s == Integrate(s0, a, dt)
             apogee == ~w.sim.apogeeReachedRef /\ s.vz <= 0 /\ phase = "burnout"
             emitted == IF apogee THEN "apogee" ELSE phase
             w1 == [w EXCEPT !.sim.lastTickRef = now,
                             !.sim.stateRef = s,
                             !.sim.flightPhaseRef = emitted,
                             !.sim.apogeeReachedRef = @ \/ apogee]
         IN Landing(w1, SimPacket(now, a, s, emitted), now, GRACE_MS_FIRST)

\* the callback of the landing timeout
landingTimeout(w) ==
    [w EXCEPT !.sim.intervalRef = 0,
              !.store = setConnected(setSimulating(@, FALSE), FALSE)]

\* startSimulation, canonical variant
startSimulation(w) ==
    IF w.sim.intervalRef # 0 THEN w
    ELSE [w EXCEPT !.sim.stateRef = RestState,
                   !.sim.flightPhaseRef = "pre-flight",
                   !.sim.apogeeReachedRef = FALSE,
                   !.sim.landedRef = FALSE,
                   !.sim.t0Ref = 0,
                   !.sim.lastTickRef = 0,
                   !.store = setConnected(@, TRUE),
                   !.sim.intervalRef = w.sim.session.id + 1,
                   !.sim.due = w.sim.now + TICK_MS,
                   !.sim.session = [NoSession EXCEPT !.id = w.sim.session.id + 1]]

\* startSimulation, first variant: landedRef is not among the refs it resets
startSimulationFirst(w) ==
    IF w.sim.intervalRef # 0 THEN w
    ELSE [w EXCEPT !.sim.stateRef = RestState,
                   !.sim.flightPhaseRef = "pre-flight",
                   !.sim.apogeeReachedRef = FALSE,
                   !.sim.t0Ref = 0,
                   !.sim.lastTickRef = 0,
                   !.store = setConnected(@, TRUE),
                   !.sim.intervalRef = w.sim.session.id + 1,
                   !.sim.due = w.sim.now + TICK_MS,
                   !.sim.session = [NoSession EXCEPT !.id = w.sim.session.id + 1]]

stopSimulation(w) ==
    [w EXCEPT !.sim.intervalRef = 0,
              !.store = setConnected(@, FALSE)]

\* the body of the simulator hook's effect for a render with isSimulating
simulationEffect(w, isSimulating) ==
    IF isSimulating
    THEN IF w.app.variant = "first" THEN startSimulationFirst(w) ELSE startSimulation(w)
    ELSE stopSimulation(w)

\* The control panel renders again whenever the isConnected or isSimulating
\* it has read from the store changes.  Its websocket hook gets
\* enabled = isConnected && !isSimulating; the effects whose dependencies
\* changed run their cleanups, then their bodies, the websocket hook's
\* before the simulator hook's; the renders repeat until nothing changes
RECURSIVE render(_)
render(w) ==
    LET en == w.store.isConnected /\ ~w.store.isSimulating
        sm == w.store.isSimulating
        turned == sm # w.app.isSimulating
        w0 == [w EXCEPT !.app.enabled = en, !.app.isSimulating = sm]
        c1 == disconnect(w0)
        c2 == IF turned THEN stopSimulation(c1) ELSE c1
        e1 == effect(c2, en)
        e2 == IF turned THEN simulationEffect(e1, sm) ELSE e1
    IN IF en = w.app.enabled /\ ~turned THEN w ELSE render(e2)

\* the first render of the control panel and its effects
mountApp(w, variant) ==
    LET w0 == [w EXCEPT !.app = [mounted |-> TRUE, variant |-> variant,
                                 enabled |-> FALSE, isSimulating |-> FALSE]]
    IN simulationEffect(effect(w0, FALSE), FALSE)

Settled(w) == IF w.app.mounted THEN render(w) ELSE w

\* simulator sessions started before the model stops starting them
MaxSessions == 2

\* the time, in ms, at which the model stops the clock
MaxClock == 400000

\* The state the handler leaves behind becomes the next state, once the
\* control panel has rendered and unreachable objects are collected
Become(w) ==
    \E c \in {Collect(Settled(w))} :
       /\ Len(c.sockets) <= MaxSockets
       /\ Len(c.timers) <= MaxTimers
       /\ Len(c.inserted) <= MaxInserted
       /\ store' = c.store
       /\ pending' = c.pending
       /\ inserted' = c.inserted
       /\ wsRef' = c.wsRef
       /\ retryTimeoutRef' = c.retryTimeoutRef
       /\ retryCount' = c.retryCount
       /\ sockets' = c.sockets
       /\ timers' = c.timers
       /\ c.sim.session.id <= MaxSessions
       /\ c.sim.now <= MaxClock
       /\ run' = c.run
       /\ sim' = c.sim
       /\ app' = c.app

\* ------------------------------------------------------------------------
\* Steps
\* ------------------------------------------------------------------------

\* no addTelemetryPacket call is between its two set()s
Idle == ~pending.active

\* no close event is due right after an error event
Quiet == \A i \in 1..Len(sockets) : ~sockets[i].closeDue

Ready == Idle /\ Quiet

\* addTelemetryPacket(packet) up to and including its first set(); zustand
\* notifies the subscribers synchronously at the end of every set()
AddTelemetryPacketBegin(packet) ==
    /\ Ready
    /\ Become(addTelemetryPacketBegin(World, packet, 0))
    /\ UNCHANGED <<mounted, enabled>>

\* the rest of addTelemetryPacket: the second set()
AddTelemetryPacketEnd ==
    /\ pending.active
    /\ store' = addTelemetryPacketSetHistory(store, pending)
    /\ pending' = NoCall
    /\ UNCHANGED <<inserted, hookVars>>

ClearHistory ==
    /\ Ready
    /\ store' = clearHistory(store)
    /\ inserted' = <<>>
    /\ UNCHANGED <<pending, hookVars>>

LogEntries == {Log("info", "Selected device", 0)}

AddLog(log) ==
    /\ Ready
    /\ store' = addLog(store, log)
    /\ UNCHANGED <<pending, inserted, hookVars>>

SetConnected(connected) ==
    /\ Ready
    /\ store' = setConnected(store, connected)
    /\ UNCHANGED <<pending, inserted, hookVars>>

\* setSimulating(simulating); a mounted hook whose isSimulating changed then
\* runs its effect cleanup and its effect
SetSimulating(simulating) ==
    /\ Ready
    /\ LET w == [World EXCEPT !.store = setSimulating(@, simulating)]
       IN IF mounted = "yes" /\ simulating # store.isSimulating
          THEN Become(effect(disconnect(w), enabled))
          ELSE Become(w)
    /\ UNCHANGED <<mounted, enabled>>

Devices == {"/dev/ttyUSB0 - Flight Computer"}

SetSelectedDevice(device) ==
    /\ Ready
    /\ store' = setSelectedDevice(store, device)
    /\ UNCHANGED <<pending, inserted, hookVars>>

SetFollowLatest(follow) ==
    /\ Ready
    /\ store' = setFollowLatest(store, follow)
    /\ UNCHANGED <<pending, inserted, hookVars>>

\* first render of the hook with enabled = en, and its effect
Mount(en) ==
    /\ Ready
    /\ mounted = "no"
    /\ mounted' = "yes"
    /\ enabled' = en
    /\ Become(effect(World, en))

\* a render with a changed enabled prop: effect cleanup, then the effect
SetEnabled(en) ==
    /\ Ready
    /\ mounted = "yes"
    /\ en # enabled
    /\ enabled' = en
    /\ Become(effect(disconnect(World), en))
    /\ UNCHANGED mounted

\* the component goes away: effect cleanup
Unmount ==
    /\ Ready
    /\ mounted = "yes"
    /\ mounted' = "gone"
    /\ Become(disconnect(World))
    /\ UNCHANGED enabled

\* connect() as returned by the latest render
Connect ==
    /\ Ready
    /\ mounted = "yes"
    /\ Become(connect(World, enabled, "call"))
    /\ UNCHANGED <<mounted, enabled>>

\* disconnect() as returned by the hook
Disconnect ==
    /\ Ready
    /\ mounted = "yes"
    /\ Become(disconnect(World))
    /\ UNCHANGED <<mounted, enabled>>

\* the transport opens: readyState OPEN, open event
SocketOpen(i) ==
    /\ Ready
    /\ sockets[i].readyState = "CONNECTING"
    /\ Become(onopen([World EXCEPT !.sockets[i].readyState = "OPEN"], i))
    /\ UNCHANGED <<mounted, enabled>>

\* a text frame arrives on an open transport: message event
SocketMessage(i, frame) ==
    /\ Ready
    /\ sockets[i].readyState = "OPEN"
    /\ Become(onmessage(World, i, frame))
    /\ UNCHANGED <<mounted, enabled>>

\* the transport fails: readyState CLOSED, error event, close event due next
SocketError(i) ==
    /\ Ready
    /\ sockets[i].readyState \in {"CONNECTING", "OPEN", "CLOSING"}
    /\ Become(onerror([World EXCEPT !.sockets[i].readyState = "CLOSED",
                                    !.sockets[i].closeDue = TRUE], i))
    /\ UNCHANGED <<mounted, enabled>>

\* the transport is closed: readyState CLOSED, close event
SocketClose(i) ==
    /\ Idle
    /\ \/ sockets[i].closeDue
       \/ Quiet /\ sockets[i].readyState \in {"CONNECTING", "OPEN", "CLOSING"}
    /\ Become(onclose([World EXCEPT !.sockets[i].readyState = "CLOSED",
                                    !.sockets[i].closeDue = FALSE], i))
    /\ UNCHANGED <<mounted, enabled>>

\* a retry timeout expires
TimerFire(t) ==
    /\ Ready
    /\ timers[t].state = "pending"
    /\ Become(retryTimeout([World EXCEPT !.timers[t].state = "fired"], t))
    /\ UNCHANGED <<mounted, enabled>>

\* "Simulation Mode", the option of the device list that is not hardware
SIMULATION_MODE == "Simulation Mode"

\* an interval callback that comes a minute late: the machine was suspended
Stall == 1200 * TICK_MS

\* the control panel is mounted, with one of the two variants of the
\* simulator hook
MountApp(variant) ==
    /\ Ready
    /\ mounted = "no"
    /\ app.variant = "none"
    /\ Become(mountApp(World, variant))
    /\ UNCHANGED <<mounted, enabled>>

\* the control panel goes away: the cleanups of both effects
UnmountApp ==
    /\ Ready
    /\ app.mounted
    /\ Become(stopSimulation(disconnect([World EXCEPT !.app.mounted = FALSE])))
    /\ UNCHANGED <<mounted, enabled>>

\* handleDeviceSelect(device)
handleDeviceSelect(w, device) ==
    [w EXCEPT !.store = addLog(setSelectedDevice(@, device),
                               Log("info", "Selected device", 0))]

HandleDeviceSelect(device) ==
    /\ Ready
    /\ app.mounted
    /\ Become(handleDeviceSelect(World, device))
    /\ UNCHANGED <<mounted, enabled>>

\* handleConnect, with the connect and disconnect of the latest render
handleConnect(w) ==
    IF w.store.isConnected
    THEN IF w.store.isSimulating
         THEN [w EXCEPT !.store = setSimulating(@, FALSE)]
         ELSE disconnect(w)
    ELSE IF w.store.selectedDevice = SIMULATION_MODE \/ w.store.selectedDevice = ""
         THEN [w EXCEPT !.store = setSimulating(@, TRUE)]
         ELSE connect(w, w.app.enabled, "call")

\* the Connect / Disconnect button, disabled while no device is selected
HandleConnect ==
    /\ Ready
    /\ app.mounted
    /\ store.selectedDevice # ""
    /\ Become(handleConnect(World))
    /\ UNCHANGED <<mounted, enabled>>

\* the interval calls stepSimulation, late by the given time; timeouts due
\* earlier come first
Tick(late) ==
    /\ Ready
    /\ sim.intervalRef # 0
    /\ \A g \in 1..Len(sim.grace) : sim.grace[g].due >= sim.due
    /\ LET now == Max(sim.now, sim.due) + late
           w == [World EXCEPT !.sim.now = now, !.sim.due = now + TICK_MS]
       IN Become(IF app.variant = "first" THEN stepSimulationFirst(w, now)
                                          ELSE stepSimulation(w, now))
    /\ UNCHANGED <<mounted, enabled>>

\* the landing timeout g expires
LandingTimeout(g) ==
    /\ Ready
    /\ \A h \in 1..Len(sim.grace) : sim.grace[h].due >= sim.grace[g].due
    /\ sim.intervalRef # 0 => sim.grace[g].due <= sim.due
    /\ LET w == [World EXCEPT
                   !.sim.now = Max(sim.now, sim.grace[g].due),
                   !.sim.grace = SubSeq(@, 1, g - 1) \o SubSeq(@, g + 1, Len(@))]
       IN Become(landingTimeout(w))
    /\ UNCHANGED <<mounted, enabled>>

Init ==
    /\ store = InitialStore
    /\ pending = NoCall
    /\ inserted = <<>>
    /\ mounted = "no"
    /\ enabled = FALSE
    /\ wsRef = 0
    /\ retryTimeoutRef = 0
    /\ retryCount = 0
    /\ sockets = <<>>
    /\ timers = <<>>
    /\ run = NoRun
    /\ sim = InitialSim
    /\ app = NoApp

NextStore ==
    \/ \E packet \in Packets : AddTelemetryPacketBegin(packet)
    \/ AddTelemetryPacketEnd
    \/ ClearHistory
    \/ \E log \in LogEntries : AddLog(log)
    \/ \E connected \in BOOLEAN : SetConnected(connected)
    \/ \E simulating \in BOOLEAN : SetSimulating(simulating)
    \/ \E device \in Devices : SetSelectedDevice(device)
    \/ \E follow \in BOOLEAN : SetFollowLatest(follow)

\* the store driven through its action surface
SpecStore == Init /\ [][NextStore]_vars

NextConn ==
    \/ \E en \in BOOLEAN : Mount(en)
    \/ \E en \in BOOLEAN : SetEnabled(en)
    \/ Unmount
    \/ Connect
    \/ Disconnect
    \/ \E simulating \in BOOLEAN : SetSimulating(simulating)
    \/ \E i \in 1..Len(sockets) : SocketOpen(i)
    \/ \E i \in 1..Len(sockets) : SocketError(i)
    \/ \E i \in 1..Len(sockets) : SocketClose(i)
    \/ \E t \in 1..Len(timers) : TimerFire(t)

\* the connection hook driven by its owner and by the transport
SpecConn == Init /\ [][NextConn]_vars

NextMsg ==
    \/ \E en \in BOOLEAN : Mount(en)
    \/ Disconnect
    \/ \E i \in 1..Len(sockets) : SocketOpen(i)
    \/ \E i \in 1..Len(sockets), frame \in Frames : SocketMessage(i, frame)
    \/ AddTelemetryPacketEnd
    \/ \E i \in 1..Len(sockets) : SocketError(i)
    \/ \E i \in 1..Len(sockets) : SocketClose(i)
    \/ \E t \in 1..Len(timers) : TimerFire(t)

\* the connection hook receiving text frames
SpecMsg == Init /\ [][NextMsg]_vars

\* the first interval callback of a session has come and the second has not
FirstTickDone == sim.t0Ref # 0 /\ sim.lastTickRef = sim.t0Ref

NextFlight ==
    \/ \E variant \in Variants : MountApp(variant)
    \/ store.selectedDevice = "" /\ HandleDeviceSelect(SIMULATION_MODE)
    \/ ~store.isConnected /\ HandleConnect
    \/ Tick(0)
    \/ FirstTickDone /\ Tick(Stall)
    \/ \E g \in 1..Len(sim.grace) : LandingTimeout(g)

\* simulator sessions that run undisturbed, with interval callbacks on time
\* or with the second callback of a session a minute late
SpecFlight == Init /\ [][NextFlight]_vars

NextApp ==
    \/ \E variant \in Variants : MountApp(variant)
    \/ UnmountApp
    \/ \E device \in {SIMULATION_MODE} \cup Devices : HandleDeviceSelect(device)
    \/ HandleConnect
    \/ Tick(Stall)
    \/ \E g \in 1..Len(sim.grace) : LandingTimeout(g)
    \/ \E i \in 1..Len(sockets) : SocketOpen(i)
    \/ \E i \in 1..Len(sockets) : SocketMessage(i, FramePad)
    \/ AddTelemetryPacketEnd
    \/ \E i \in 1..Len(sockets) : SocketClose(i)
    \/ \E t \in 1..Len(timers) : TimerFire(t)

\* the control panel driven by its user, the transport and the timers, on
\* a machine whose interval callbacks come a minute late
SpecApp == Init /\ [][NextApp]_vars

\* ------------------------------------------------------------------------
\* Properties of the store
\* ------------------------------------------------------------------------

\* C1: after any sequence of addTelemetryPacket and clearHistory calls the
\* length of history is at most the buffer size.
C1_HistoryBounded == Len(store.history) <= HISTORY_BUFFER_SIZE

\* the buffer is full and a packet has been evicted from it
C1_Witness ==
    /\ Idle
    /\ Len(inserted) > HISTORY_BUFFER_SIZE
    /\ Len(store.history) = HISTORY_BUFFER_SIZE

\* C2: after n completed addTelemetryPacket calls since the last
\* clearHistory, history is the last min(n, buffer size) inserted packets in
\* insertion order; one insertion past the capacity, the first element of
\* history is the second inserted packet.
C2_HistoryIsRecentWindow ==
    Idle =>
      /\ Len(store.history) = Min(Len(inserted), HISTORY_BUFFER_SIZE)
      /\ \A j \in 1..Len(store.history) :
            store.history[j] = inserted[Len(inserted) - Len(store.history) + j]
      /\ Len(inserted) = HISTORY_BUFFER_SIZE + 1 => store.history[1] = inserted[2]

\* one insertion past the capacity, with distinguishable packets
C2_Witness ==
    /\ Idle
    /\ Len(inserted) = HISTORY_BUFFER_SIZE + 1
    /\ inserted[1] # inserted[2]
    /\ inserted[2] # inserted[Len(inserted)]
    /\ store.history[1] = inserted[2]

\* |imu.accel|, |velocity| and |imu.accel| / 9.81 of the packets of the
\* model, computed by hand, in hundredths
Derived(packet) ==
    CASE packet = PacketPad ->
           [altitude |-> 0, velocity |-> 0, acceleration |-> 981, gForce |-> 100]
      [] packet = PacketBoost ->
           [altitude |-> 120000, velocity |-> 5000, acceleration |-> 1962, gForce |-> 200]
      [] packet = PacketDescent ->
           [altitude |-> -30, velocity |-> 1300, acceleration |-> 4905, gForce |-> 500]

\* maxima accounts for packet
Accounts(maxima, packet) ==
    /\ maxima.maxAltitude >= Derived(packet).altitude
    /\ maxima.maxVelocity >= Derived(packet).velocity
    /\ maxima.maxAcceleration >= Derived(packet).acceleration
    /\ maxima.maxGForce >= Derived(packet).gForce

\* C3: in every state a subscriber can observe once addTelemetryPacket(p)
\* has set currentPacket = p, history ends with p and sessionMaxima accounts
\* for p.
C3_SnapshotConsistent ==
    (inserted # <<>> /\ store.currentPacket = inserted[Len(inserted)]) =>
      /\ store.history # <<>>
      /\ store.history[Len(store.history)] = store.currentPacket
      /\ Accounts(store.sessionMaxima, store.currentPacket)

NonDecreasing(old, new) ==
    /\ new.maxAltitude >= old.maxAltitude
    /\ new.maxVelocity >= old.maxVelocity
    /\ new.maxAcceleration >= old.maxAcceleration
    /\ new.maxGForce >= old.maxGForce

\* C4: no step other than clearHistory lowers any of the four sessionMaxima
\* fields.
C4_MaximaNonDecreasing ==
    [][~ClearHistory => NonDecreasing(store.sessionMaxima, store'.sessionMaxima)]_vars

\* a packet below the maxima has been inserted after a packet that set them
C4_Witness ==
    /\ Idle
    /\ inserted = <<PacketBoost, PacketPad>>
    /\ store.currentPacket = PacketPad
    /\ store.sessionMaxima.maxAltitude = 120000
    /\ store.sessionMaxima.maxGForce = 200

Larger(a, b) == IF a < b THEN b ELSE a

\* C5: the second set() of addTelemetryPacket(p) makes each sessionMaxima
\* field the larger of its previous value and p's altitude, |velocity|,
\* |accel| and |accel| / 9.81; a first packet with acceleration (0, 0, 9.81)
\* gives maxGForce 1.0.
C5_MaximaElementwise ==
    [][AddTelemetryPacketEnd =>
         LET old == store.sessionMaxima
             d == Derived(pending.packet)
         IN /\ store'.sessionMaxima =
                 [maxAltitude     |-> Larger(old.maxAltitude, d.altitude),
                  maxVelocity     |-> Larger(old.maxVelocity, d.velocity),
                  maxAcceleration |-> Larger(old.maxAcceleration, d.acceleration),
                  maxGForce       |-> Larger(old.maxGForce, d.gForce)]
            /\ inserted = <<PacketPad>> => store'.sessionMaxima.maxGForce = 100]_vars

\* maxima that no single packet has: altitude and velocity of one packet,
\* acceleration and g-force of a later one
C5_Witness ==
    /\ Idle
    /\ inserted = <<PacketBoost, PacketDescent>>
    /\ store.sessionMaxima =
         [maxAltitude |-> 120000, maxVelocity |-> 5000,
          maxAcceleration |-> 4905, maxGForce |-> 500]

\* C6: clearHistory() empties history, zeroes the four maxima and leaves
\* logs, currentPacket, isConnected, isSimulating, selectedDevice and
\* followLatest as they were.
C6_ClearHistoryFrame ==
    [][ClearHistory =>
         /\ store'.history = <<>>
         /\ store'.sessionMaxima.maxAltitude = 0
         /\ store'.sessionMaxima.maxVelocity = 0
         /\ store'.sessionMaxima.maxAcceleration = 0
         /\ store'.sessionMaxima.maxGForce = 0
         /\ store'.logs = store.logs
         /\ store'.currentPacket = store.currentPacket
         /\ store'.isConnected = store.isConnected
         /\ store'.isSimulating = store.isSimulating
         /\ store'.selectedDevice = store.selectedDevice
         /\ store'.followLatest = store.followLatest]_vars

\* history was cleared after a packet arrived, everything else is off its
\* initial value
C6_Witness ==
    /\ Idle
    /\ store.currentPacket = PacketBoost
    /\ inserted = <<>>
    /\ store.history = <<>>
    /\ store.sessionMaxima = ZeroMaxima
    /\ store.logs # <<>>
    /\ store.isConnected
    /\ store.isSimulating
    /\ store.selectedDevice # ""
    /\ ~store.followLatest

\* C7: logs never holds more than the log capacity, and addLog, setConnected
\* and setSimulating each leave logs as the most recent entries, up to the
\* capacity, of the old logs followed by their one new entry: the oldest
\* entry is the one that goes.
C7_LogsBounded ==
    /\ [](Len(store.logs) <= LOG_BUFFER_SIZE)
    /\ [][LET Appended(log) ==
                /\ store'.logs = LastN(store.logs \o <<log>>, LOG_BUFFER_SIZE)
                /\ store'.logs[Len(store'.logs)] = log
                /\ Len(store.logs) = LOG_BUFFER_SIZE =>
                     \A j \in 1..(LOG_BUFFER_SIZE - 1) : store'.logs[j] = store.logs[j + 1]
          IN /\ \A log \in LogEntries : AddLog(log) => Appended(log)
             /\ SetConnected(TRUE) =>
                  Appended(Log("success", "Connected to telemetry source", 0))
             /\ SetConnected(FALSE) =>
                  Appended(Log("warning", "Disconnected from telemetry source", 0))
             /\ SetSimulating(TRUE) => Appended(Log("info", "Started simulation mode", 0))
             /\ SetSimulating(FALSE) => Appended(Log("info", "Stopped simulation mode", 0))]_vars

\* logs is full of device selections although setConnected(true) has logged
\* before them: its entry was the oldest and is gone
C7_Witness ==
    /\ store.isConnected
    /\ Len(store.logs) = LOG_BUFFER_SIZE
    /\ \A j \in 1..Len(store.logs) : store.logs[j].message = "Selected device"

\* ------------------------------------------------------------------------
\* Properties of the connection hook
\* ------------------------------------------------------------------------

InvalidPacketLog == Log("error", "Invalid telemetry packet", 0)

\* C8: a malformed inbound frame appends exactly one error log entry, leaves
\* currentPacket, history and sessionMaxima unchanged and the transport
\* open; a valid frame arriving later on that transport is applied to the
\* store.
C8_MalformedFrameDropped ==
    [][\A i \in 1..Len(sockets) :
         /\ \A frame \in MalformedFrames :
              SocketMessage(i, frame) =>
                /\ store'.logs = LastN(Append(store.logs, InvalidPacketLog), LOG_BUFFER_SIZE)
                /\ store'.currentPacket = store.currentPacket
                /\ store'.history = store.history
                /\ store'.sessionMaxima = store.sessionMaxima
                /\ ~pending'.active
                /\ Len(sockets') = Len(sockets)
                /\ sockets'[i].readyState = "OPEN"
                /\ wsRef' = wsRef
         /\ \A frame \in ValidFrames :
              (sockets[i].rejected /\ SocketMessage(i, frame)) =>
                /\ store'.currentPacket = frame.packet
                /\ pending'.active
                /\ pending'.packet = frame.packet
                /\ newHistory(pending')[Len(newHistory(pending'))] = frame.packet]_vars

\* a transport that has dropped a malformed frame is open and is applying a
\* valid frame to the store
C8_Witness ==
    \E i \in 1..Len(sockets) :
       /\ sockets[i].rejected
       /\ sockets[i].readyState = "OPEN"
       /\ pending.active
       /\ pending.via = i
       /\ store.currentPacket = PacketBoost
       /\ \E j \in 1..Len(store.logs) : store.logs[j] = InvalidPacketLog

PendingTimers(ts) == {t \in 1..Len(ts) : ts[t].state = "pending"}

\* the delays listed for attempts 0, 1, 2, 3, 4 and 5 and above
ListedDelays == <<1000, 2000, 4000, 8000, 16000, 30000>>

\* C9 as stated: whenever a transport of the enabled hook closes with the
\* retry counter at k, a reconnect is scheduled after 1000, 2000, 4000, 8000,
\* 16000 ms for k = 0..4 and after 30000 ms for k = 5 and above.
C9_DelaysAsListed ==
    [][\A i \in 1..Len(sockets) :
         (mounted = "yes" /\ enabled /\ sockets[i].en /\ SocketClose(i)) =>
           /\ retryTimeoutRef' \in PendingTimers(timers')
           /\ timers'[retryTimeoutRef'].delay = ListedDelays[Min(retryCount, 5) + 1]]_vars

\* C9 amended: a close with the retry counter at k = 0..4 schedules one
\* reconnect after 1000, 2000, 4000, 8000, 16000 ms respectively; a close
\* with the counter at 5 or above schedules none, so no reconnect is ever
\* scheduled after 30000 ms.
C9_DelaysUpToCap ==
    /\ [](\A t \in PendingTimers(timers) :
            timers[t].delay \in {1000, 2000, 4000, 8000, 16000})
    /\ [][\A i \in 1..Len(sockets) :
            SocketClose(i) =>
              IF retryCount < 5
              THEN /\ retryTimeoutRef' \in PendingTimers(timers')
                   /\ timers'[retryTimeoutRef'].delay = ListedDelays[retryCount + 1]
                   /\ Cardinality(PendingTimers(timers')) =
                        Cardinality(PendingTimers(timers)) + 1
              ELSE Cardinality(PendingTimers(timers')) =
                     Cardinality(PendingTimers(timers))]_vars

\* the fifth reconnect is scheduled, 16000 ms ahead
C9_Witness ==
    /\ mounted = "yes"
    /\ enabled
    /\ retryCount = 4
    /\ retryTimeoutRef \in PendingTimers(timers)
    /\ timers[retryTimeoutRef].delay = 16000

AllClosed ==
    \A i \in 1..Len(sockets) :
       sockets[i].readyState = "CLOSED" /\ ~sockets[i].closeDue

LiveSockets(ss) == {i \in 1..Len(ss) : ss[i].readyState \in {"CONNECTING", "OPEN"}}

\* the owner has connected once, no transport has opened, five retries have
\* been made and the last of them has failed
GivenUp ==
    /\ run.phase = "retrying"
    /\ run.retries = 5
    /\ AllClosed

\* C10: in a run where no transport opens, at most 5 automatic reconnects
\* follow the owner's connect(); after the 5th failed retry no retry timer
\* is pending and no transport is created until the owner calls connect(),
\* and connect() of the enabled hook then creates one.
C10_RetriesCapped ==
    /\ [](run.phase = "retrying" => run.retries <= 5)
    /\ [](GivenUp => PendingTimers(timers) = {})
    /\ [][GivenUp =>
            \/ Cardinality(LiveSockets(sockets')) = 0
            \/ run'.phase = "void"]_vars
    /\ [][(GivenUp /\ enabled /\ Connect) =>
            /\ wsRef' \in LiveSockets(sockets')
            /\ sockets'[wsRef'].readyState = "CONNECTING"]_vars

\* five retries made, the last transport closed, nothing scheduled
C10_Witness ==
    /\ GivenUp
    /\ mounted = "yes"
    /\ enabled
    /\ retryCount = 5
    /\ sockets # <<>>

\* ------------------------------------------------------------------------
\* Properties of disconnect() and of the transport handle
\* ------------------------------------------------------------------------

\* C11: once disconnect() has returned and until connect() creates a
\* transport again (wsRef.current is null in between), no retry timer is
\* pending: disconnect() leaves none, the close event of the transport it
\* closed schedules none, and no retry timeout creates a transport.
C11_DisconnectStopsRetries ==
    /\ [][Disconnect => PendingTimers(timers') = {}]_vars
    /\ [][\A i \in 1..Len(sockets) :
            (wsRef = 0 /\ SocketClose(i)) => PendingTimers(timers') = {}]_vars
    /\ [][\A t \in 1..Len(timers) :
            (wsRef = 0 /\ TimerFire(t)) => LiveSockets(sockets') = {}]_vars

\* C12: every disconnect() leaves the retry counter at 0.
C12_DisconnectResetsRetryCount ==
    [][Disconnect => retryCount' = 0]_vars

\* C13: at most one transport is CONNECTING or OPEN at a time.
C13_OneLiveTransport == Cardinality(LiveSockets(sockets)) <= 1

\* ------------------------------------------------------------------------
\* Properties of the simulator
\* ------------------------------------------------------------------------

\* position of a phase in the nominal sequence
Rank(phase) == CHOOSE i \in 1..Len(FlightPhases) : FlightPhases[i] = phase

\* C15: within one simulator session the phase of each emitted packet is at
\* the same or a later position of the nominal sequence than the phase of
\* the packet emitted before it.
C15_PhaseNeverBackward ==
    \A i \in 1..(Len(sim.session.phases) - 1) :
       Rank(sim.session.phases[i]) <= Rank(sim.session.phases[i + 1])

\* the burn is over: from here on stepSimulation reads the clock only to
\* find that again
AfterBurn ==
    /\ sim.t0Ref # 0
    /\ sim.now - sim.t0Ref >=
         IF app.variant = "first" THEN 2000 + BOOST_DURATION_FIRST
         ELSE PRE_FLIGHT_DURATION + BOOST_DURATION

\* C16: from a fresh startSimulation(), with the interval firing fairly, the
\* simulator eventually reaches phase landed at altitude 0.  For that, no
\* tick after the burn may leave the altitude, the vertical speed, the phase
\* and the apogee latch as they were short of landed: the later ticks read
\* nothing else, and would all do the same.
C16_TicksReachLanded ==
    [][\A late \in {0, Stall} :
         (AfterBurn /\ Tick(late) /\ sim'.flightPhaseRef # "landed") =>
            \/ sim'.stateRef.z # sim.stateRef.z
            \/ sim'.stateRef.vz # sim.stateRef.vz
            \/ sim'.flightPhaseRef # sim.flightPhaseRef
            \/ sim'.apogeeReachedRef # sim.apogeeReachedRef]_vars

\* C17: a session emits one packet with phase landed, on the first tick
\* that reaches landed, and no packet after it.
C17_OneLandedPacket ==
    /\ sim.session.landedPackets <= 1
    /\ ~sim.session.afterLanded
    /\ (sim.session.id > 0 /\ sim.flightPhaseRef = "landed") =>
          sim.session.landedPackets = 1

\* C19: every startSimulation() that begins ticking leaves position and
\* velocity zero, the phase pre-flight, both latches cleared and the start
\* and last-tick times unset.
C19_StartResetsAll ==
    [][sim'.session.id # sim.session.id =>
         /\ sim'.intervalRef # 0
         /\ sim'.stateRef = RestState
         /\ sim'.flightPhaseRef = "pre-flight"
         /\ ~sim'.apogeeReachedRef
         /\ ~sim'.landedRef
         /\ sim'.t0Ref = 0
         /\ sim'.lastTickRef = 0]_vars

\* ------------------------------------------------------------------------
\* Properties of the control panel
\* ------------------------------------------------------------------------

\* C14: a live transport and the simulator's interval are never active
\* together, and no packet received from the transport is applied to the
\* store while isSimulating is true.
C14_SourcesExclusive ==
    /\ [](LiveSockets(sockets) = {} \/ sim.intervalRef = 0)
    /\ [][\A i \in 1..Len(sockets) :
            (store.isSimulating /\ SocketMessage(i, FramePad)) =>
               store'.currentPacket = store.currentPacket]_vars

\* the session that set the landing timeout g is over: a later session
\* has been started, or the interval has been cleared
Stopped(g) ==
    sim.grace[g].session # sim.session.id \/ sim.intervalRef = 0

\* C18: a landing timeout set by a session that has since been stopped does
\* not, when it expires, clear the interval of a session started later nor
\* change isSimulating or isConnected.
C18_NoTimerIntoLaterSession ==
    [][\A g \in 1..Len(sim.grace) :
         (Stopped(g) /\ LandingTimeout(g)) =>
            /\ sim'.intervalRef = sim.intervalRef
            /\ store'.isSimulating = store.isSimulating
            /\ store'.isConnected = store.isConnected]_vars

\* C20: in every state of the mounted control panel, calling
\* startSimulation() twice in a row leaves the simulator and the store as
\* calling it once does, and so does calling stopSimulation() twice.
C20_StartStopIdempotent ==
    LET start(w) == IF app.variant = "first" THEN startSimulationFirst(w)
                                             ELSE startSimulation(w)
    IN app.mounted =>
         /\ start(start(World)) = start(World)
         /\ stopSimulation(stopSimulation(World)) = stopSimulation(World)

\* ------------------------------------------------------------------------
\* Properties of connect(), the control panel, the wire schema and the rest
\* ------------------------------------------------------------------------

\* connect() as returned by the latest render would return early
ConnectReturnsEarly == ~enabled \/ (wsRef # 0 /\ sockets[wsRef].readyState = "OPEN")

C22_ConnectOpensWebSocket ==
    (/\ app.mounted /\ Ready
     /\ ~store.isConnected /\ ~store.isSimulating
     /\ store.selectedDevice \in Devices
     /\ Len(sockets) < MaxSockets)
    => ENABLED (/\ HandleConnect
                /\ wsRef' # 0
                /\ sockets'[wsRef'].readyState = "CONNECTING")


\* C24: the timestamps of adjacent entries of history never decrease
C24_TimestampsNonDecreasing ==
    \A k \in 1..(Len(store.history) - 1) :
       store.history[k].timestamp <= store.history[k + 1].timestamp


\* the number of times the session's packets entered phase apogee
ApogeeEntries ==
    Cardinality({i \in 1..Len(sim.session.phases) : sim.session.phases[i] = "apogee"})

\* the canonical variant's landed guard, which it tests before the latch
InLandingWindow ==
    /\ app.variant = "canonical"
    /\ sim.stateRef.z <= LANDING_ALT
    /\ Abs(sim.stateRef.vz) < LANDING_SPEED

\* C25 as stated: in a session the apogee latch is set at most once, by
\* the first tick after the burn whose updated vertical velocity is not
\* positive; only startSimulation clears it; the packets enter phase
\* apogee at most once
C25_ApogeeOnFirstDescent ==
    [][/\ (sim.apogeeReachedRef /\ ~sim'.apogeeReachedRef)
            => sim'.session.id # sim.session.id
       /\ \A late \in {0, Stall} :
             (Tick(late) /\ ~sim.apogeeReachedRef) =>
                (sim'.apogeeReachedRef <=> (AfterBurn' /\ sim'.stateRef.vz <= 0))
       /\ ApogeeEntries' <= 1]_vars

\* C25 amended: as C25, but a tick of the canonical variant whose updated
\* state is within the landing window (z <= 5 m, |vz| < 2 m/s) goes to
\* landed and leaves the latch alone
C25_ApogeeLatchedOnce ==
    [][/\ (sim.apogeeReachedRef /\ ~sim'.apogeeReachedRef)
            => sim'.session.id # sim.session.id
       /\ \A late \in {0, Stall} :
             (Tick(late) /\ ~sim.apogeeReachedRef) =>
                (sim'.apogeeReachedRef <=>
                    (AfterBurn' /\ sim'.stateRef.vz <= 0 /\ ~InLandingWindow'))
       /\ ApogeeEntries' <= 1]_vars

\* a canonical session latched apogee high up and has passed on to the
\* drogue
C25_Witness ==
    /\ app.variant = "canonical"
    /\ sim.apogeeReachedRef
    /\ ApogeeEntries = 1
    /\ sim.flightPhaseRef = "drogue-deploy"


\* C26: the open event of a transport sets the retry counter to 0 and
\* isConnected to true and logs the success, so that the loss of an open
\* connection of the enabled hook is answered by a retry after 1000 ms
\* with the counter still at 0
C26_OpenRestoresBudget ==
    [][\A i \in 1..Len(sockets) :
         /\ SocketOpen(i) =>
               /\ retryCount' = 0
               /\ store'.isConnected
               /\ store'.logs[Len(store'.logs)] =
                     Log("success", "Connected to WebSocket", 0)
         /\ (SocketClose(i) /\ sockets[i].readyState = "OPEN" /\ sockets[i].en) =>
               /\ retryCount' = 0
               /\ retryTimeoutRef' # 0
               /\ timers'[retryTimeoutRef'].state = "pending"
               /\ timers'[retryTimeoutRef'].delay = BASE_DELAY]_vars


\* what the integration of the tick now taken gives before the ground
\* clamp: the state, acceleration and dt as stepSimulation computes them
Unclamped ==
    LET dt == Min(DT_MAX, sim'.now - sim.lastTickRef)
        t == sim'.now - sim.t0Ref
        phase == IF app.variant = "first"
                 THEN PhaseFirst(t, sim.stateRef, sim.flightPhaseRef,
                                 sim.apogeeReachedRef)
                 ELSE sim.flightPhaseRef
        a == IF app.variant = "first"
             THEN AccelFirst(phase, sim.stateRef, t)
             ELSE Accel(phase, sim.stateRef)
        s0 == IF phase # "landed" THEN sim.stateRef
              ELSE IF app.variant = "first"
              THEN [sim.stateRef EXCEPT !.vz = 0, !.z = 0]
              ELSE [sim.stateRef EXCEPT !.vx = 0, !.vy = 0, !.vz = 0, !.z = 0]
    IN IntegrateNoClamp(s0, a, dt)

\* C27: after every tick the altitude z is not negative; a tick whose
\* integration gives a negative z ends with z = 0 and vz = 0, any other
\* tick with the integrated z and vz; the altitude of the packet the store
\* holds is never below ground
C27_GroundClamp ==
    [][\A late \in {0, Stall} :
         (Tick(late) /\ sim.t0Ref # 0) =>
            /\ sim'.stateRef.z >= 0
            /\ IF Unclamped.z < 0
               THEN sim'.stateRef.z = 0 /\ sim'.stateRef.vz = 0
               ELSE /\ sim'.stateRef.z = Unclamped.z
                    /\ sim'.stateRef.vz = Unclamped.vz
            /\ store'.currentPacket.altitude >= 0
            /\ \A k \in 1..Len(store'.history) : store'.history[k].altitude >= 0]_vars

\* a descent under the main parachute has met the ground: the clamp has
\* stopped the vehicle and the landed packet is in the store
C27_Witness ==
    /\ sim.apogeeReachedRef
    /\ sim.flightPhaseRef = "landed"
    /\ sim.stateRef.z = 0 /\ sim.stateRef.vz = 0
    /\ store.currentPacket.phase = "landed"
    /\ store.currentPacket.altitude = 0


\* C28: the error event of a transport appends one error log entry and
\* changes nothing else: isConnected, the other store fields, the retry
\* counter, the retry timeouts and both refs stay as they were
C28_ErrorOnlyLogs ==
    [][\A i \in 1..Len(sockets) :
         SocketError(i) =>
            /\ store'.logs = LastN(Append(store.logs, Log("error", "WebSocket error", 0)),
                                   LOG_BUFFER_SIZE)
            /\ store' = [store EXCEPT !.logs = store'.logs]
            /\ retryCount' = retryCount
            /\ timers' = timers
            /\ retryTimeoutRef' = retryTimeoutRef
            /\ wsRef' = wsRef
            /\ pending' = pending]_vars

\* an open connection has had its error event and not yet its close event:
\* the log has the error and isConnected is still true
C28_Witness ==
    /\ store.isConnected
    /\ \E i \in 1..Len(sockets) : sockets[i].closeDue /\ i = wsRef
    /\ Len(store.logs) > 0
    /\ store.logs[Len(store.logs)] = Log("error", "WebSocket error", 0)


\* the store st with the flag set and one entry of the given type appended
\* to the logs, the oldest entry dropped when the buffer was full
Flagged(st, flag, b, type) ==
    /\ Len(store'.logs) > 0
    /\ store'.logs[Len(store'.logs)].type = type
    /\ store'.logs = LastN(Append(st.logs, store'.logs[Len(store'.logs)]),
                           LOG_BUFFER_SIZE)
    /\ store' = [st EXCEPT ![flag] = b, !.logs = store'.logs]

\* C29: setConnected(b) sets isConnected to b and appends one log entry,
\* success for true and warning for false; setSimulating(b) sets
\* isSimulating to b and appends one info entry; neither changes any other
\* field of the store, currentPacket, history and sessionMaxima included
C29_FlagSettersLogOnce ==
    [][\A b \in BOOLEAN :
         /\ SetConnected(b) =>
               Flagged(store, "isConnected", b, IF b THEN "success" ELSE "warning")
         /\ SetSimulating(b) => Flagged(store, "isSimulating", b, "info")]_vars

\* both setters have been called on a store that holds a packet: the
\* flags are set, the two entries are in the logs, the packet is in place
C29_Witness ==
    /\ store.isConnected /\ store.isSimulating
    /\ Len(store.history) > 0
    /\ store.currentPacket # NullPacket
    /\ store.sessionMaxima # ZeroMaxima
    /\ Len(store.logs) = 2
    /\ store.logs[1].type = "success"
    /\ store.logs[2].type = "info"


\* C30: whenever no addTelemetryPacket call is between its two set()s, a
\* history that is not empty ends with currentPacket; clearHistory empties
\* the history and leaves currentPacket in place
C30_HistoryEndsWithCurrent ==
    /\ [](Idle /\ Len(store.history) > 0
            => store.history[Len(store.history)] = store.currentPacket)
    /\ [][ClearHistory =>
            /\ store'.history = <<>>
            /\ store'.currentPacket = store.currentPacket]_vars

\* more packets than the buffer holds have been added since the last
\* clear: the oldest is gone and the newest is both the end of the history
\* and the current packet
C30_Witness ==
    /\ Idle
    /\ Len(inserted) > HISTORY_BUFFER_SIZE
    /\ Len(store.history) = HISTORY_BUFFER_SIZE
    /\ store.history[Len(store.history)] = store.currentPacket
    /\ store.history[1] # store.currentPacket

====
